---------------------------- MODULE Spec2Model ----------------------------
(***************************************************************************)
(* A model of keras_cv: the COCO recall metric (metrics/coco/recall.py,    *)
(* with the accumulator and matching engine of metrics/coco/base.py taken  *)
(* from the design document), the GaussianBlur layer, the MixUp layer and  *)
(* the Equalize layer.                                                     *)
(*                                                                         *)
(* Real numbers are exact rationals <<n, d>> with d > 0, kept in lowest    *)
(* terms; <<0, 0>> stands for the float NaN (0.0 / 0.0).                   *)
(***************************************************************************)
EXTENDS Integers, Sequences, FiniteSets, TLC

VARIABLES
    cfg,                \* COCOBase: iou_thresholds, category_ids, area_ranges, max_detections
    true_positives,     \* COCOBase.true_positives[t, k, a, m]
    ground_truth_boxes, \* COCOBase.ground_truth_boxes[k, a]
    seen,               \* the images passed to update_state since the last reset
    ret,                \* what the metric's last call returned
    mb,                 \* the matching engine at work on one bucket of one image
    blur,               \* the GaussianBlur layer the last constructor call built
    blur_ret,           \* what the last GaussianBlur call returned or raised
    mix,                \* the MixUp layer
    mix_ret,            \* what the last MixUp call returned
    eq,                 \* the Equalize layer
    eq_ret              \* what the last Equalize.equalize_channel call returned

vars == <<cfg, true_positives, ground_truth_boxes, seen, ret, mb,
          blur, blur_ret, mix, mix_ret, eq, eq_ret>>

cocoVars == <<cfg, true_positives, ground_truth_boxes, seen, ret>>
blurVars == <<blur, blur_ret>>
mixVars == <<mix, mix_ret>>
eqVars == <<eq, eq_ret>>

----------------------------------------------------------------------------
(* Bounds of the model.                                                    *)

\* update_state calls between two resets
MaxUpdates == 3
\* ground-truth boxes of a generated image given to the matching engine
MaxGT == 2
\* predictions of a generated image given to the matching engine
MaxPred == 2
\* largest kernel dimension a GaussianBlur layer is built with
MaxKernel == 5
\* largest batch MixUp is called with
MaxBatch == 2
\* runs of equal pixels in a channel given to Equalize.equalize_channel
MaxRuns == 3

----------------------------------------------------------------------------
(* Arithmetic.                                                             *)

\* The function f, evaluated once: TLC keeps a function expression
\* unevaluated, and evaluates it anew at every application, until it has
\* been compared.
Evaluated(f) == IF f = f THEN f ELSE f

Min(a, b) == IF a <= b THEN a ELSE b
Max(a, b) == IF a >= b THEN a ELSE b
Abs(a) == IF a < 0 THEN -a ELSE a

RECURSIVE GCD(_, _)
GCD(a, b) == IF b = 0 THEN a ELSE GCD(b, a % b)

\* The rational n / d in lowest terms, d > 0.
Rat(n, d) ==
    LET g == GCD(Abs(n), Abs(d))
        s == IF d < 0 THEN -1 ELSE 1
    IN  IF d = 0 THEN <<0, 0>> ELSE <<s * (n \div g), s * (d \div g)>>

NaN == <<0, 0>>
IsNaN(q) == q[2] = 0
RAdd(p, q) == IF IsNaN(p) \/ IsNaN(q) THEN NaN
              ELSE Rat(p[1] * q[2] + q[1] * p[2], p[2] * q[2])
RSub(p, q) == IF IsNaN(p) \/ IsNaN(q) THEN NaN
              ELSE Rat(p[1] * q[2] - q[1] * p[2], p[2] * q[2])
RMul(p, q) == IF IsNaN(p) \/ IsNaN(q) THEN NaN
              ELSE Rat(p[1] * q[1], p[2] * q[2])
RLeq(p, q) == p[1] * q[2] <= q[1] * p[2]
RLess(p, q) == p[1] * q[2] < q[1] * p[2]

RECURSIVE SeqSum(_)
SeqSum(s) == IF s = <<>> THEN 0 ELSE Head(s) + SeqSum(Tail(s))

RECURSIVE SeqProd(_)
SeqProd(s) == IF s = <<>> THEN 1 ELSE Head(s) * SeqProd(Tail(s))

RECURSIVE RSum(_)
RSum(s) == IF s = <<>> THEN <<0, 1>> ELSE RAdd(Head(s), RSum(Tail(s)))

\* The sequences over S of length at most n.
SeqsUpTo(S, n) == UNION {[1..k -> S] : k \in 0..n}

\* The permutations of 1..n, as sequences.
Perms(n) == {p \in [1..n -> 1..n] : \A i, j \in 1..n : p[i] = p[j] => i = j}

----------------------------------------------------------------------------
(* Boxes and images.  A box is <<x_min, y_min, x_max, y_max>>; a ground    *)
(* truth is [box, class]; a prediction is [box, class, score].             *)

BoxA == <<0, 0, 2, 2>>
BoxB == <<0, 0, 2, 1>>
BoxD == <<0, 0, 4, 4>>
BoxE == <<0, 0, 4, 3>>

GT(b, c) == [box |-> b, class |-> c]
PR(b, c, s) == [box |-> b, class |-> c, score |-> s]
Image(g, p) == [gt |-> g, pred |-> p]

\* The images update_state is called with.
Images ==
    { Image(<<GT(BoxA, 1)>>, <<PR(BoxA, 1, 9)>>),
      Image(<<GT(BoxA, 1)>>, <<PR(BoxA, 2, 9)>>),
      Image(<<>>, <<PR(BoxA, 1, 9)>>),
      Image(<<GT(BoxA, 1)>>, <<PR(BoxB, 1, 9), PR(BoxA, 1, 5)>>),
      Image(<<GT(BoxA, 1), GT(BoxD, 2)>>, <<PR(BoxE, 2, 7)>>),
      Image(<<GT(BoxA, 1), GT(BoxA, 1)>>, <<PR(BoxA, 1, 9), PR(BoxA, 1, 9)>>),
      Image(<<GT(BoxD, 1)>>, <<>>),
      Image(<<GT(BoxA, 1), GT(BoxD, 1)>>,
            <<PR(BoxD, 1, 5), PR(BoxA, 1, 9), PR(BoxB, 1, 9)>>) }

\* The images the matching engine is run on, one bucket at a time.
GTPool == {GT(BoxA, 1), GT(BoxD, 1), GT(BoxA, 2)}
PredPool == {PR(BoxA, 1, 9), PR(BoxB, 1, 9), PR(BoxA, 1, 5), PR(BoxE, 1, 7),
             PR(BoxA, 2, 7)}
MatchImages == {Image(g, p) : g \in SeqsUpTo(GTPool, MaxGT),
                              p \in SeqsUpTo(PredPool, MaxPred)}

----------------------------------------------------------------------------
(* COCOBase.__init__: the configuration, fixed for the metric's lifetime.  *)
(* IoU thresholds are rationals, area ranges are <<min_area, max_area>>.   *)

Config(t, k, a, m) ==
    [iou_thresholds |-> t, category_ids |-> k, area_ranges |-> a,
     max_detections |-> m]

Configs ==
    { Config(<<<<1, 2>>>>, <<1>>, <<<<0, 100>>>>, <<1>>),
      Config(<<<<1, 2>>>>, <<1, 2>>, <<<<0, 100>>>>, <<1, 2>>),
      Config(<<<<3, 4>>>>, <<1, 2>>, <<<<0, 100>>>>, <<1, 2>>),
      Config(<<<<1, 2>>, <<3, 4>>>>, <<1, 2>>, <<<<0, 8>>, <<8, 100>>>>, <<1, 2>>) }

NT(c) == Len(c.iou_thresholds)
NK(c) == Len(c.category_ids)
NA(c) == Len(c.area_ranges)
NM(c) == Len(c.max_detections)

TPIndex(c) == (1..NT(c)) \X (1..NK(c)) \X (1..NA(c)) \X (1..NM(c))
GTIndex(c) == (1..NK(c)) \X (1..NA(c))


ZeroTP(c) == [i \in TPIndex(c) |-> 0]
ZeroGT(c) == [i \in GTIndex(c) |-> 0]

----------------------------------------------------------------------------
(* The matching engine (design document, 4.1).                             *)

\* Area of a box; a malformed box (x_max < x_min or y_max < y_min) has area 0.
Area(b) == IF b[3] < b[1] \/ b[4] < b[2] THEN 0
           ELSE (b[3] - b[1]) * (b[4] - b[2])

\* The half-open area interval [min_area, max_area).
InAreaRange(b, r) == r[1] <= Area(b) /\ Area(b) < r[2]

Intersection(a, b) ==
    Max(0, Min(a[3], b[3]) - Max(a[1], b[1]))
        * Max(0, Min(a[4], b[4]) - Max(a[2], b[2]))

\* Intersection over union; the union counts the intersection once, and a
\* zero union gives 0.
IoU(a, b) ==
    LET i == Intersection(a, b)
        u == Area(a) + Area(b) - i
    IN  IF u = 0 THEN <<0, 1>> ELSE Rat(i, u)

\* Step 1: the boxes of s (ground truths or predictions) in area range r.
InRangeIdx(s, r) == {i \in 1..Len(s) : InAreaRange(s[i].box, r)}

\* Steps 2 and 3: indices S of predictions p by descending confidence, ties
\* in original order.
RECURSIVE ByConfidence(_, _)
ByConfidence(p, S) ==
    IF S = {} THEN <<>>
    ELSE LET b == CHOOSE i \in S : \A j \in S :
                     \/ p[i].score > p[j].score
                     \/ p[i].score = p[j].score /\ i <= j
         IN  <<b>> \o ByConfidence(p, S \ {b})

Truncate(s, n) == SubSeq(s, 1, Min(n, Len(s)))

\* The predictions a bucket considers, in the order it considers them.
Candidates(c, img, a, m) ==
    Truncate(ByConfidence(img.pred, InRangeIdx(img.pred, c.area_ranges[a])),
             c.max_detections[m])

\* The ground truths already matched by the predictions processed so far.
Matched(assign) == {assign[i] : i \in 1..Len(assign)} \ {0}

\* The ground truths prediction p may still take at threshold thr among the
\* ground truths G: same class, IoU >= thr (inclusive), not matched yet.
EligibleAnyGT(img, thr, G, assign, p) ==
    {g \in G : /\ img.gt[g].class = img.pred[p].class
               /\ RLeq(thr, IoU(img.gt[g].box, img.pred[p].box))}

Eligible(img, thr, G, assign, p) ==
    {g \in G : /\ img.gt[g].class = img.pred[p].class
               /\ RLeq(thr, IoU(img.gt[g].box, img.pred[p].box))
               /\ g \notin Matched(assign)}

\* Step 4, one prediction: it takes the eligible ground truth of highest IoU
\* (the first of them on a tie), or none (0).
MatchStep(c, img, t, a, assign, p) ==
    LET E == Eligible(img, c.iou_thresholds[t],
                      InRangeIdx(img.gt, c.area_ranges[a]), assign, p)
        iou(g) == IoU(img.gt[g].box, img.pred[p].box)
        best == CHOOSE g \in E : \A h \in E :
                    \/ ~RLeq(iou(g), iou(h))
                    \/ iou(g) = iou(h) /\ g <= h
    IN  Append(assign, IF E = {} THEN 0 ELSE best)

\* Step 4: the greedy assignment over the predictions in order.
RECURSIVE Greedy(_, _, _, _, _, _)
Greedy(c, img, t, a, order, assign) ==
    IF Len(assign) >= Len(order) THEN assign
    ELSE Greedy(c, img, t, a, order,
                MatchStep(c, img, t, a, assign, order[Len(assign) + 1]))

\* Step 5: the true positives of class k among the predictions processed.
CountTP(c, img, k, order, assign) ==
    Cardinality({i \in 1..Len(assign) :
        assign[i] # 0 /\ img.pred[order[i]].class = c.category_ids[k]})

\* Step 5: all filtered ground truths of class k, matched or not.
CountGT(c, img, k, a) ==
    Cardinality({g \in InRangeIdx(img.gt, c.area_ranges[a]) :
        img.gt[g].class = c.category_ids[k]})

\* MatchResult: one image's counts for every bucket.
MatchResult(c, img) ==
    [tp |-> Evaluated([i \in TPIndex(c) |->
                LET order == Candidates(c, img, i[3], i[4])
                IN  CountTP(c, img, i[2], order,
                            Greedy(c, img, i[1], i[3], order, <<>>))]),
     gt |-> Evaluated([i \in GTIndex(c) |-> CountGT(c, img, i[1], i[2])])]

\* The match results of the images update_state is called with.
MatchTable ==
    Evaluated([c \in Configs |->
        Evaluated([img \in Images |-> MatchResult(c, img)])])

----------------------------------------------------------------------------
(* The accumulator (design document, 4.2).                                 *)

AccumulateAssign(total, delta) == delta

\* A running total takes one image's count.
Accumulate(total, delta) == total + delta

UpdateTP(c, tp, img) ==
    LET delta == MatchTable[c][img].tp
    IN  Evaluated([i \in DOMAIN tp |-> Accumulate(tp[i], delta[i])])
UpdateGT(c, gt, img) ==
    LET delta == MatchTable[c][img].gt
    IN  Evaluated([i \in DOMAIN gt |-> Accumulate(gt[i], delta[i])])

\* The totals after update_state on each image of imgs in turn.
RECURSIVE Replay(_, _, _)
Replay(c, acc, imgs) ==
    IF imgs = <<>> THEN acc
    ELSE Replay(c, [tp |-> UpdateTP(c, acc.tp, Head(imgs)),
                    gt |-> UpdateGT(c, acc.gt, Head(imgs))], Tail(imgs))

----------------------------------------------------------------------------
(* COCORecall (metrics/coco/recall.py).                                    *)

\* str() of a digit, of a natural number, of a pair of them.
Digit(d) == SubSeq("0123456789", d + 1, d + 1)

RECURSIVE IntStr(_)
IntStr(n) == IF n < 0 THEN "-" \o IntStr(-n)
             ELSE IF n < 10 THEN Digit(n)
             ELSE IntStr(n \div 10) \o Digit(n % 10)

TupleStr(r) == "(" \o IntStr(r[1]) \o ", " \o IntStr(r[2]) \o ")"

\* tf.math.divide_no_nan: 0 where the denominator is 0.
divide_no_nan(x, y) == IF y = 0 THEN <<0, 1>> ELSE Rat(x, y)

\* tf.math.reduce_sum and tf.math.reduce_mean over all elements.
reduce_sum(s) == RSum(s)

reduce_mean(s) ==
    LET t == RSum(s)
    IN  IF IsNaN(t) \/ Len(s) = 0 THEN NaN ELSE Rat(t[1], t[2] * Len(s))

RecallsSwapped(c, tp, gt, a_i, m_i) ==
    [j \in 1..(NT(c) * NK(c)) |->
        LET t == ((j - 1) \div NK(c)) + 1
            k == ((j - 1) % NK(c)) + 1
        IN  divide_no_nan(gt[<<k, a_i>>], tp[<<t, k, a_i, m_i>>])]

\* recalls[t, k] of _single_result, row by row.
Recalls(c, tp, gt, a_i, m_i) ==
    [j \in 1..(NT(c) * NK(c)) |->
        LET t == ((j - 1) \div NK(c)) + 1
            k == ((j - 1) % NK(c)) + 1
        IN  divide_no_nan(tp[<<t, k, a_i, m_i>>], gt[<<k, a_i>>])]

_single_result_sum(c, tp, gt, a_i, m_i) == reduce_sum(Recalls(c, tp, gt, a_i, m_i))

_single_result(c, tp, gt, a_i, m_i) == reduce_mean(Recalls(c, tp, gt, a_i, m_i))

iou_threshold_str_rep(c) == "[0.5, 0.95, 0.05]"

_key_for_area_only(c, a_i, m_i) ==
    "Recall @ " \o iou_threshold_str_rep(c) \o ", "
        \o TupleStr(c.area_ranges[a_i])

_key_for(c, a_i, m_i) ==
    "Recall @ " \o iou_threshold_str_rep(c) \o ", "
        \o TupleStr(c.area_ranges[a_i]) \o ", max_dets="
        \o IntStr(c.max_detections[m_i])

\* result[key] = value
DictSet(d, key, value) ==
    [x \in (DOMAIN d) \cup {key} |-> IF x = key THEN value ELSE d[x]]

\* The dictionary after the first n rounds of result's two loops
\* (a_i outermost).
RECURSIVE ResultLoop(_, _, _, _)
ResultLoop(c, tp, gt, n) ==
    IF n = 0 THEN <<>>
    ELSE LET a_i == ((n - 1) \div NM(c)) + 1
             m_i == ((n - 1) % NM(c)) + 1
         IN  DictSet(ResultLoop(c, tp, gt, n - 1), _key_for(c, a_i, m_i),
                     _single_result(c, tp, gt, a_i, m_i))

result(c, tp, gt) ==
    LET n_results == NA(c) * NM(c)
    IN  IF n_results = 1
        THEN [kind |-> "scalar", value |-> _single_result(c, tp, gt, 1, 1)]
        ELSE [kind |-> "mapping",
              entries |-> ResultLoop(c, tp, gt, n_results)]

----------------------------------------------------------------------------
(* The metric as a state machine.                                          *)

None == [kind |-> "None"]
Idle == [kind |-> "idle"]

InitCOCO ==
    /\ cfg \in Configs
    /\ true_positives = ZeroTP(cfg)
    /\ ground_truth_boxes = ZeroGT(cfg)
    /\ seen = <<>>
    /\ ret = None
    /\ mb = Idle /\ blur = Idle /\ blur_ret = Idle /\ mix = Idle /\ mix_ret = Idle
    /\ eq = Idle /\ eq_ret = Idle

UpdateState(img) ==
    /\ Len(seen) < MaxUpdates
    /\ true_positives' = UpdateTP(cfg, true_positives, img)
    /\ ground_truth_boxes' = UpdateGT(cfg, ground_truth_boxes, img)
    /\ seen' = Append(seen, img)
    /\ ret' = None
    /\ UNCHANGED <<cfg, mb, blur, blur_ret, mix, mix_ret, eq, eq_ret>>

ResetState ==
    /\ true_positives' = ZeroTP(cfg)
    /\ ground_truth_boxes' = ZeroGT(cfg)
    /\ seen' = <<>>
    /\ ret' = None
    /\ UNCHANGED <<cfg, mb, blur, blur_ret, mix, mix_ret, eq, eq_ret>>

Result ==
    /\ ret' = result(cfg, true_positives, ground_truth_boxes)
    /\ UNCHANGED <<cfg, true_positives, ground_truth_boxes, seen,
                   mb, blur, blur_ret, mix, mix_ret, eq, eq_ret>>

Update == \E img \in Images : UpdateState(img)

Next == Update \/ ResetState \/ Result

Spec == InitCOCO /\ [][Next]_vars

----------------------------------------------------------------------------
(* The matching engine at work on one bucket of one image, one prediction  *)
(* at a time.                                                              *)

InitMatch ==
    /\ cfg \in Configs
    /\ true_positives = ZeroTP(cfg)
    /\ ground_truth_boxes = ZeroGT(cfg)
    /\ seen = <<>>
    /\ ret = None
    /\ \E img \in MatchImages, t \in 1..NT(cfg), a \in 1..NA(cfg),
          m \in 1..NM(cfg) :
            mb = [kind |-> "matching", img |-> img, t |-> t, a |-> a, m |-> m,
                  order |-> Candidates(cfg, img, a, m), assign |-> <<>>]
    /\ blur = Idle /\ blur_ret = Idle /\ mix = Idle /\ mix_ret = Idle
    /\ eq = Idle /\ eq_ret = Idle

MatchNext ==
    /\ mb.kind = "matching"
    /\ Len(mb.assign) < Len(mb.order)
    /\ mb' = [mb EXCEPT !.assign =
                MatchStep(cfg, mb.img, mb.t, mb.a, mb.assign,
                          mb.order[Len(mb.assign) + 1])]
    /\ UNCHANGED <<cocoVars, blur, blur_ret, mix, mix_ret, eq, eq_ret>>

NextMatch == MatchNext

SpecMatch == InitMatch /\ [][NextMatch]_vars

----------------------------------------------------------------------------
(* Properties of COCORecall.                                               *)

IsResult(r) == r.kind \in {"scalar", "mapping"}

\* The values a result holds, and the value it holds for bucket (a, m).
ResultValues(r) == IF r.kind = "scalar" THEN {r.value}
                   ELSE {r.entries[x] : x \in DOMAIN r.entries}
ResultCount(r) == IF r.kind = "scalar" THEN 1
                  ELSE Cardinality(DOMAIN r.entries)
HasValueFor(c, r, a, m) ==
    r.kind = "scalar" \/ _key_for(c, a, m) \in DOMAIN r.entries
ValueFor(c, r, a, m) == IF r.kind = "scalar" THEN r.value
                        ELSE r.entries[_key_for(c, a, m)]

Buckets(c) == (1..NA(c)) \X (1..NM(c))

\* The counts of bucket (t, a, m), all classes together.
BucketTP(c, tp, t, a, m) ==
    SeqSum([k \in 1..NK(c) |-> tp[<<t, k, a, m>>]])
BucketGT(c, gt, a) == SeqSum([k \in 1..NK(c) |-> gt[<<k, a>>]])

\* C1 as stated: result() reports one value per (IoU threshold, area range,
\* max-detections) bucket, which is that bucket's true positives over its
\* ground-truth count, or 0 when that count is 0.
C1_OneRecallPerIoUBucket ==
    IsResult(ret) =>
        /\ ResultCount(ret) = NT(cfg) * NA(cfg) * NM(cfg)
        /\ \A t \in 1..NT(cfg), b \in Buckets(cfg) :
            /\ HasValueFor(cfg, ret, b[1], b[2])
            /\ ValueFor(cfg, ret, b[1], b[2]) =
                 divide_no_nan(BucketTP(cfg, true_positives, t, b[1], b[2]),
                               BucketGT(cfg, ground_truth_boxes, b[1]))

\* The ground-truth counts of area range a per class, a zero count replaced
\* by 1, and the sum over thresholds and classes of tp / gt brought to their
\* product as common denominator (a cell with no ground truth adds 0).
Denominators(c, gt, a) ==
    [k \in 1..NK(c) |-> IF gt[<<k, a>>] = 0 THEN 1 ELSE gt[<<k, a>>]]
ScaledRecallSum(c, tp, gt, a, m) ==
    LET L == SeqProd(Denominators(c, gt, a))
    IN  SeqSum([j \in 1..(NT(c) * NK(c)) |->
            LET t == ((j - 1) \div NK(c)) + 1
                k == ((j - 1) % NK(c)) + 1
            IN  IF gt[<<k, a>>] = 0 THEN 0
                ELSE tp[<<t, k, a, m>>] * (L \div gt[<<k, a>>])])

\* C1, amended: result() reports one value per (area range, max-detections)
\* bucket, and that value is the mean, over every IoU threshold and every
\* class, of true positives / ground-truth count, a quotient being 0 when
\* the ground-truth count is 0.
C1_RecallIsMeanOverThresholdsAndClasses ==
    IsResult(ret) =>
        /\ ResultCount(ret) = NA(cfg) * NM(cfg)
        /\ \A b \in Buckets(cfg) :
            /\ HasValueFor(cfg, ret, b[1], b[2])
            /\ LET v == ValueFor(cfg, ret, b[1], b[2])
               IN  /\ v[2] > 0
                   /\ v[1] * NT(cfg) * NK(cfg)
                           * SeqProd(Denominators(cfg, ground_truth_boxes, b[1]))
                      = v[2] * ScaledRecallSum(cfg, true_positives,
                                               ground_truth_boxes, b[1], b[2])

\* result() was called on counts of two thresholds where some class of a
\* bucket has ground truths and another has none, and reported a recall
\* strictly between 0 and 1 for it.
C1_Witness ==
    /\ IsResult(ret) /\ NT(cfg) = 2
    /\ \E b \in Buckets(cfg) :
        /\ \E k \in 1..NK(cfg) : ground_truth_boxes[<<k, b[1]>>] = 0
        /\ \E k \in 1..NK(cfg) : ground_truth_boxes[<<k, b[1]>>] > 0
        /\ HasValueFor(cfg, ret, b[1], b[2])
        /\ LET v == ValueFor(cfg, ret, b[1], b[2]) IN 0 < v[1] /\ v[1] < v[2]
        /\ true_positives[<<1, 1, b[1], b[2]>>]
             # true_positives[<<2, 1, b[1], b[2]>>]

NoGroundTruth(c, gt, a) == \A k \in 1..NK(c) : gt[<<k, a>>] = 0

\* C2 as stated: a bucket whose accumulated ground-truth count is zero is
\* reported as a "no data" value that is not the recall 0.
C2_NoDataSentinel ==
    (IsResult(ret) /\ seen # <<>>) =>
        \A b \in Buckets(cfg) :
            NoGroundTruth(cfg, ground_truth_boxes, b[1]) =>
                /\ HasValueFor(cfg, ret, b[1], b[2])
                /\ ValueFor(cfg, ret, b[1], b[2]) # <<0, 1>>

\* What the code does instead: a bucket whose accumulated ground-truth
\* count is zero is reported as exactly 0, the value a recall of 0 has, and
\* every value result() reports is a number.
ZeroGroundTruthReportsZero ==
    IsResult(ret) =>
        /\ \A v \in ResultValues(ret) : ~IsNaN(v)
        /\ \A b \in Buckets(cfg) :
            NoGroundTruth(cfg, ground_truth_boxes, b[1]) =>
                /\ HasValueFor(cfg, ret, b[1], b[2])
                /\ ValueFor(cfg, ret, b[1], b[2]) = <<0, 1>>

\* result() was called after updates with predictions and no ground truth.
ZeroGroundTruthReported ==
    /\ IsResult(ret) /\ seen # <<>>
    /\ \A i \in 1..Len(seen) : seen[i].gt = <<>> /\ seen[i].pred # <<>>
    /\ \A b \in Buckets(cfg) : NoGroundTruth(cfg, ground_truth_boxes, b[1])

\* C3: result() returns a scalar exactly when there is one (area range,
\* max-detections) bucket, and otherwise a mapping with one entry per
\* bucket, each holding that bucket's value.
C3_ScalarIffSingleBucket ==
    IsResult(ret) =>
        /\ ret.kind = "scalar" <=> NA(cfg) * NM(cfg) = 1
        /\ ret.kind = "mapping" =>
            /\ Cardinality(DOMAIN ret.entries) = NA(cfg) * NM(cfg)
            /\ \A b \in Buckets(cfg) :
                /\ _key_for(cfg, b[1], b[2]) \in DOMAIN ret.entries
                /\ ret.entries[_key_for(cfg, b[1], b[2])] =
                     _single_result(cfg, true_positives, ground_truth_boxes,
                                    b[1], b[2])

\* result() returned a mapping of four buckets whose values are not all
\* the same.
C3_Witness ==
    /\ IsResult(ret) /\ ret.kind = "mapping"
    /\ NA(cfg) * NM(cfg) = 4
    /\ Cardinality(ResultValues(ret)) > 1

\* C4 as stated: the key of a bucket encodes the configured IoU thresholds,
\* the area range and the max-detections value: metrics with different
\* thresholds give the same bucket different keys, and two buckets of one
\* metric never share a key.
C4_KeyEncodesThresholds ==
    (IsResult(ret) /\ ret.kind = "mapping") =>
        /\ \A b1, b2 \in Buckets(cfg) :
            b1 # b2 => _key_for(cfg, b1[1], b1[2]) # _key_for(cfg, b2[1], b2[2])
        /\ \A c2 \in Configs : \A b1 \in Buckets(cfg), b2 \in Buckets(c2) :
            ( /\ c2.iou_thresholds # cfg.iou_thresholds
              /\ c2.area_ranges[b2[1]] = cfg.area_ranges[b1[1]]
              /\ c2.max_detections[b2[2]] = cfg.max_detections[b1[2]] )
            => _key_for(cfg, b1[1], b1[2]) # _key_for(c2, b2[1], b2[2])

\* C5: no accumulated true-positive count exceeds the ground-truth count
\* result() divides it by, and every value result() reports is in [0, 1].
C5_RecallInUnitInterval ==
    /\ \A i \in TPIndex(cfg) :
        true_positives[i] <= ground_truth_boxes[<<i[2], i[3]>>]
    /\ IsResult(ret) =>
        \A v \in ResultValues(ret) : v[2] > 0 /\ 0 <= v[1] /\ v[1] <= v[2]

\* result() reported a recall strictly between 0 and 1 after two updates.
C5_Witness ==
    /\ IsResult(ret) /\ Len(seen) >= 2
    /\ \E v \in ResultValues(ret) : 0 < v[1] /\ v[1] < v[2]

\* The orders n images can be passed in.
Orders == [n \in 0..MaxUpdates |-> Perms(n)]
Permuted(s, p) == [i \in 1..Len(s) |-> s[p[i]]]

\* C6: the totals, and what result() returns, are those of the same images
\* passed to update in any other order from a reset accumulator.
C6_OrderIndependent ==
    \A p \in Orders[Len(seen)] :
        LET acc == Replay(cfg, [tp |-> ZeroTP(cfg), gt |-> ZeroGT(cfg)],
                          Permuted(seen, p))
        IN  /\ acc.tp = true_positives
            /\ acc.gt = ground_truth_boxes
            /\ IsResult(ret) => ret = result(cfg, acc.tp, acc.gt)

\* result() was called after three images of different counts.
C6_Witness ==
    /\ IsResult(ret) /\ Len(seen) >= 3
    /\ \A i, j \in 1..Len(seen) :
        i # j => MatchTable[cfg][seen[i]] # MatchTable[cfg][seen[j]]
    /\ \E i \in TPIndex(cfg) : true_positives[i] > 0

\* C7: while one image is matched, no two predictions of a bucket are
\* assigned the same ground truth, every assigned ground truth is one of
\* the bucket's, and per class the true positives never exceed the
\* bucket's ground truths.
C7_GroundTruthConsumedOnce ==
    mb.kind = "matching" =>
        /\ \A i, j \in 1..Len(mb.assign) :
            (i # j /\ mb.assign[i] # 0) => mb.assign[i] # mb.assign[j]
        /\ \A i \in 1..Len(mb.assign) :
            mb.assign[i] # 0 =>
                /\ mb.assign[i] \in InRangeIdx(mb.img.gt, cfg.area_ranges[mb.a])
                /\ mb.img.gt[mb.assign[i]].class
                     = mb.img.pred[mb.order[i]].class
        /\ \A k \in 1..NK(cfg) :
            CountTP(cfg, mb.img, k, mb.order, mb.assign)
                <= CountGT(cfg, mb.img, k, mb.a)

\* A prediction was left unmatched only because the one ground truth it
\* overlaps enough was taken by an earlier prediction.
C7_Witness ==
    /\ mb.kind = "matching" /\ Len(mb.assign) >= 2
    /\ mb.assign[1] # 0 /\ mb.assign[2] = 0
    /\ mb.assign[1] \in EligibleAnyGT(mb.img, cfg.iou_thresholds[mb.t],
                            InRangeIdx(mb.img.gt, cfg.area_ranges[mb.a]),
                            <<>>, mb.order[2])

----------------------------------------------------------------------------
(* GaussianBlur (layers/preprocessing/gaussian_blur.py).                   *)
(* A Python value is a record with its type; a float holds its value as an *)
(* integer (2.0 is PyFloat(2)).  A tensor is known by its shape.           *)

PyInt(v) == [type |-> "int", v |-> v]
PyFloat(v) == [type |-> "float", v |-> v]
PyStr(v) == [type |-> "str", chars |-> v]
PyNone == [type |-> "NoneType"]
PyTuple(a, b) == [type |-> "tuple", items |-> <<a, b>>]
PyList(a, b) == [type |-> "list", items |-> <<a, b>>]

\* isinstance(v, (tuple, list)), and isinstance(a, type(b)) for the types
\* above, none of which is a subclass of another.
IsTupleOrList(v) == v.type \in {"tuple", "list"}
IsInstanceOfTypeOf(a, b) == a.type = b.type

Raised(exc) == [kind |-> "raised", exc |-> exc]
Tensor(shape) == [kind |-> "tensor", shape |-> shape]

\* The arguments the constructor is called with.
KernelSizes ==
    {PyInt(k) : k \in 1..MaxKernel}
        \cup {PyTuple(PyInt(i), PyInt(j)) : i, j \in 1..MaxKernel}
        \cup {PyList(PyInt(7), PyInt(3)), PyFloat(3), PyStr("3"), PyNone}
Sigmas ==
    { PyInt(1), PyInt(2), PyFloat(2), PyInt(0), PyInt(-1), PyFloat(-1),
      PyTuple(PyInt(0), PyInt(2)), PyTuple(PyFloat(1), PyFloat(2)),
      PyList(PyInt(1), PyInt(1)),
      PyTuple(PyInt(0), PyFloat(2)), PyTuple(PyFloat(0), PyInt(2)),
      PyTuple(PyInt(2), PyInt(1)), PyTuple(PyFloat(2), PyFloat(1)) }

\* __init__, lines 37-47: self.x, self.y, or the ValueError.
InitKernel(kernel_size) ==
    IF IsTupleOrList(kernel_size)
    THEN [x |-> kernel_size.items[1].v, y |-> kernel_size.items[2].v]
    ELSE IF kernel_size.type = "int"
         THEN [x |-> kernel_size.v, y |-> kernel_size.v]
         ELSE Raised("ValueError")

\* __init__, lines 49-54: self.sigma_min, self.sigma_max; type(sigma)(0) is
\* int 0 or float 0.0.
InitSigma(sigma) ==
    IF IsTupleOrList(sigma)
    THEN [sigma_min |-> sigma.items[1], sigma_max |-> sigma.items[2]]
    ELSE [sigma_min |-> [type |-> sigma.type, v |-> 0], sigma_max |-> sigma]

\* __init__, lines 56-62: the ValueError's message reads self.width_lower,
\* which no GaussianBlur has, so building it raises AttributeError.
TypeMismatchRaises == "AttributeError"

\* GaussianBlur(kernel_size, sigma): the layer, or what it raised.
GaussianBlurInit(kernel_size, sigma) ==
    LET k == InitKernel(kernel_size)
        s == InitSigma(sigma)
    IN  IF "kind" \in DOMAIN k THEN k
        ELSE IF ~IsInstanceOfTypeOf(s.sigma_min, s.sigma_max)
             THEN Raised(TypeMismatchRaises)
        ELSE IF s.sigma_max.v < s.sigma_min.v THEN Raised("ValueError")
        ELSE IF sigma.type = "float" /\ ~(s.sigma_min.v >= 0)
             THEN Raised("ValueError")
        ELSE [kind |-> "GaussianBlur", kernel_size |-> kernel_size,
              sigma |-> sigma, x |-> k.x, y |-> k.y,
              sigma_min |-> s.sigma_min, sigma_max |-> s.sigma_max,
              _sigma_is_float |-> (sigma.type = "float")]

\* tf.range(start, limit).
Range(start, limit) ==
    [i \in 1..Max(0, limit - start) |-> start + i - 1]

get_kernel_symmetric(sigma, filter_size) ==
    Range(-(filter_size \div 2), (filter_size \div 2) + 1)

\* get_kernel: one tap per element of x = tf.range(-filter_size // 2 + 1,
\* filter_size // 2 + 1); exp, pow and the division by the sum are
\* elementwise, so the filter is known here by its taps' offsets.
get_kernel(sigma, filter_size) ==
    Range(((-filter_size) \div 2) + 1, (filter_size \div 2) + 1)

\* tf.reshape of a vector, tf.tile, tf.expand_dims(axis=0),
\* tf.squeeze(axis=0) and tf.nn.depthwise_conv2d(strides 1, padding SAME)
\* on shapes.
reshape(v, shape) ==
    IF Len(v) = SeqProd(shape) THEN Tensor(shape)
    ELSE Raised("InvalidArgumentError")
tile(t, multiples) ==
    IF t.kind # "tensor" THEN t
    ELSE Tensor([i \in 1..Len(t.shape) |-> t.shape[i] * multiples[i]])
expand_dims(shape) == <<1>> \o shape
squeeze(t) ==
    IF t.kind # "tensor" THEN t
    ELSE IF t.shape[1] = 1 THEN Tensor(Tail(t.shape))
    ELSE Raised("InvalidArgumentError")
depthwise_conv2d(input, filter) ==
    IF input.kind # "tensor" THEN input
    ELSE IF filter.kind # "tensor" THEN filter
    ELSE IF filter.shape[3] = input.shape[4]
            /\ filter.shape[1] >= 1 /\ filter.shape[2] >= 1
         THEN Tensor(<<input.shape[1], input.shape[2], input.shape[3],
                       input.shape[4] * filter.shape[4]>>)
         ELSE Raised("InvalidArgumentError")

\* self._random_generator.random_uniform(minval, maxval) draws from
\* [minval, maxval): here the lower bound or the midpoint.
SigmaDraws(layer) ==
    {Rat(layer.sigma_min.v, 1), Rat(layer.sigma_min.v + layer.sigma_max.v, 2)}

get_random_transformation(layer, sigma) ==
    [blur_v |-> reshape(get_kernel(sigma, layer.y), <<layer.y, 1, 1, 1>>),
     blur_h |-> reshape(get_kernel(sigma, layer.x), <<1, layer.x, 1, 1>>)]

augment_image(image, transformation) ==
    LET expanded == Tensor(expand_dims(image))
        num_channels == image[Len(image)]
        blur_h == tile(transformation.blur_h, <<1, 1, num_channels, 1>>)
        blur_v == tile(transformation.blur_v, <<1, 1, num_channels, 1>>)
    IN  squeeze(depthwise_conv2d(depthwise_conv2d(expanded, blur_h), blur_v))

\* BaseImageAugmentationLayer.__call__: a single image [H, W, C] is
\* augmented; a batch [N, H, W, C] is augmented image by image, each with
\* its own transformation, and stacked.
GaussianBlurCall(layer, inputs, sigmas) ==
    LET image == IF Len(inputs) = 4 THEN Tail(inputs) ELSE inputs
        outs == [i \in 1..Len(sigmas) |->
                    augment_image(image,
                        get_random_transformation(layer, sigmas[i]))]
    IN  IF \E i \in 1..Len(outs) : outs[i].kind # "tensor"
        THEN outs[CHOOSE i \in 1..Len(outs) : outs[i].kind # "tensor"]
        ELSE IF Len(inputs) = 4
             THEN Tensor(<<Len(outs)>> \o outs[1].shape)
             ELSE outs[1]

\* The shapes the layer is called on: single or batched, square or not,
\* grey or RGB.
ImageShapes ==
    {<<h, w, c>> : h \in {4}, w \in {4, 6}, c \in {1, 3}}
        \cup {<<n, h, w, c>> : n \in {2}, h \in {4}, w \in {4, 6}, c \in {1, 3}}

InitBlur ==
    /\ blur = Idle /\ blur_ret = Idle
    /\ cfg = Idle /\ true_positives = Idle /\ ground_truth_boxes = Idle
    /\ seen = Idle /\ ret = Idle /\ mb = Idle /\ mix = Idle /\ mix_ret = Idle
    /\ eq = Idle /\ eq_ret = Idle

BlurConstruct ==
    \E kernel_size \in KernelSizes, sigma \in Sigmas :
        LET r == GaussianBlurInit(kernel_size, sigma)
        IN  /\ blur' = IF r.kind = "raised" THEN Idle ELSE r
            /\ blur_ret' = [kind |-> "init", kernel_size |-> kernel_size,
                            sigma |-> sigma,
                            raised |-> IF r.kind = "raised" THEN r.exc
                                       ELSE "none"]
            /\ UNCHANGED <<cocoVars, mb, mix, mix_ret, eq, eq_ret>>

BlurCall ==
    /\ blur.kind = "GaussianBlur"
    /\ \E inputs \in ImageShapes :
        \E sigmas \in [1..(IF Len(inputs) = 4 THEN inputs[1] ELSE 1)
                        -> SigmaDraws(blur)] :
            blur_ret' = [kind |-> "call", inputs |-> inputs,
                         out |-> GaussianBlurCall(blur, inputs, sigmas)]
    /\ UNCHANGED <<cocoVars, mb, blur, mix, mix_ret, eq, eq_ret>>

NextBlur == BlurConstruct \/ BlurCall

SpecBlur == InitBlur /\ [][NextBlur]_vars

\* C8: a call of a layer built from valid arguments succeeds and returns a
\* tensor of the input's shape, and the kernels of the layer have exactly
\* x and y taps.
C8_BlurKeepsShape ==
    /\ blur.kind = "GaussianBlur" =>
        \A s \in SigmaDraws(blur) :
            /\ Len(get_kernel(s, blur.x)) = blur.x
            /\ Len(get_kernel(s, blur.y)) = blur.y
    /\ blur_ret.kind = "call" => blur_ret.out = Tensor(blur_ret.inputs)

\* A layer with an even x and an odd y, x # y, was called on a batch of
\* non-square RGB images.
C8_Witness ==
    /\ blur_ret.kind = "call" /\ blur.kind = "GaussianBlur"
    /\ blur.x % 2 = 0 /\ blur.y % 2 = 1 /\ blur.y > 1
    /\ blur.sigma_min.v < blur.sigma_max.v
    /\ Len(blur_ret.inputs) = 4
    /\ blur_ret.inputs[2] # blur_ret.inputs[3] /\ blur_ret.inputs[4] = 3
    /\ blur_ret.out.kind = "tensor"

\* The three kinds of invalid argument C9 names.
KernelSizeBadType(kernel_size) ==
    kernel_size.type \notin {"list", "tuple", "int"}
SigmaMixedTypes(sigma) ==
    IsTupleOrList(sigma) /\ sigma.items[1].type # sigma.items[2].type
SigmaUpperBelowLower(sigma) ==
    \/ IsTupleOrList(sigma) /\ sigma.items[2].v < sigma.items[1].v
    \/ sigma.type \in {"int", "float"} /\ sigma.v < 0

\* C9 as stated: the constructor rejects each invalid argument with a
\* ValueError and builds no layer, and fails with no other exception.
C9_InvalidArgumentsRaiseValueError ==
    blur_ret.kind = "init" =>
        /\ blur_ret.raised \in {"none", "ValueError"}
        /\ ( \/ KernelSizeBadType(blur_ret.kernel_size)
             \/ SigmaMixedTypes(blur_ret.sigma)
             \/ SigmaUpperBelowLower(blur_ret.sigma) )
           => (blur_ret.raised = "ValueError" /\ blur = Idle)

----------------------------------------------------------------------------
(* MixUp (layers/preprocessing/mix_up.py).  An image is one pixel value,   *)
(* a label a one-hot vector over NumClasses classes; both are rationals.   *)

One == <<1, 1>>
Zero == <<0, 1>>
Half == <<1, 2>>

NumClasses == 2
OneHot(c) == [i \in 1..NumClasses |-> IF i = c THEN One ELSE Zero]

\* MixUp(rate, label_smoothing=0.0, alpha=0.2, seed=None).
MixUpInit(rate, label_smoothing) ==
    [kind |-> "MixUp", rate |-> rate, label_smoothing |-> label_smoothing,
     alpha |-> <<1, 5>>]

\* _smooth_labels on a batch of labels.
_smooth_labels(layer, labels) ==
    LET off_value == RMul(layer.label_smoothing, Rat(1, Len(labels[1])))
        on_value == RAdd(RSub(One, layer.label_smoothing), off_value)
    IN  [i \in 1..Len(labels) |-> [j \in 1..Len(labels[i]) |->
            RAdd(RMul(on_value, labels[i][j]),
                 RMul(RSub(One, labels[i][j]), off_value))]]

\* tf.gather(values, permutation_order).
gather(values, order) == [i \in 1..Len(order) |-> values[order[i]]]

\* _mixup: every image is blended with its partner under the permutation.
_mixup(layer, images, labels, lambda_sample, permutation_order) ==
    LET mixup_images == gather(images, permutation_order)
    IN  [images |-> [i \in 1..Len(images) |->
                        RAdd(RMul(lambda_sample[i], images[i]),
                             RMul(RSub(One, lambda_sample[i]), mixup_images[i]))],
         labels |-> labels,
         lambda_sample |-> lambda_sample,
         permutation_order |-> permutation_order]

\* _update_labels: the smoothed labels blended with the partners' labels.
_update_labels(layer, m) ==
    LET labels_smoothed == _smooth_labels(layer, m.labels)
        labels_for_mixup == gather(m.labels, m.permutation_order)
    IN  [images |-> m.images,
         labels |-> [i \in 1..Len(m.labels) |-> [j \in 1..Len(m.labels[i]) |->
            RAdd(RMul(m.lambda_sample[i], labels_smoothed[i][j]),
                 RMul(RSub(One, m.lambda_sample[i]), labels_for_mixup[i][j]))]]]

\* augment_cond of call: one draw u of tf.random.uniform(shape=[]) compared
\* with the rate, for the whole batch.
augment_cond(layer, u) == RLess(u, layer.rate)

\* call(images, labels) with its random draws: u, the shuffle and the
\* lambdas.  augmented[i] tells whether sample i went through _mixup.
MixUpCall(layer, images, labels, u, permutation_order, lambda_sample) ==
    LET cond == augment_cond(layer, u)
        out == IF cond
               THEN _update_labels(layer,
                        _mixup(layer, images, labels, lambda_sample,
                               permutation_order))
               ELSE [images |-> images, labels |-> _smooth_labels(layer, labels)]
    IN  [kind |-> "call", in_images |-> images, in_labels |-> labels,
         images |-> out.images, labels |-> out.labels,
         augmented |-> [i \in 1..Len(images) |-> cond]]

\* What the layer is built and called with, and what its draws may be.
Rates == {Zero, Half, One}
LabelSmoothings == {Zero, Half}
Pixels == {Zero, <<4, 1>>}
Uniforms == {Zero, <<1, 4>>, <<3, 4>>}
Lambdas == {<<1, 4>>, <<3, 4>>}

InitMixUp ==
    /\ mix = Idle /\ mix_ret = Idle
    /\ cfg = Idle /\ true_positives = Idle /\ ground_truth_boxes = Idle
    /\ seen = Idle /\ ret = Idle /\ mb = Idle /\ blur = Idle /\ blur_ret = Idle
    /\ eq = Idle /\ eq_ret = Idle

MixConstruct ==
    \E rate \in Rates, label_smoothing \in LabelSmoothings :
        /\ mix' = MixUpInit(rate, label_smoothing)
        /\ mix_ret' = Idle
        /\ UNCHANGED <<cocoVars, mb, blur, blur_ret, eq, eq_ret>>

MixCall ==
    /\ mix.kind = "MixUp"
    /\ \E n \in 1..MaxBatch :
        \E images \in [1..n -> Pixels], classes \in [1..n -> 1..NumClasses],
           u \in Uniforms, order \in Perms(n), lams \in [1..n -> Lambdas] :
            mix_ret' = MixUpCall(mix, images,
                                 [i \in 1..n |-> OneHot(classes[i])],
                                 u, order, lams)
    /\ UNCHANGED <<cocoVars, mb, blur, blur_ret, mix, eq, eq_ret>>

NextMixUp == MixConstruct \/ MixCall

SpecMixUp == InitMixUp /\ [][NextMixUp]_vars

\* The outcomes a call on this batch can have, over all random draws.
CallOutcomes(layer, images, labels) ==
    {MixUpCall(layer, images, labels, u, order, lams) :
        u \in Uniforms, order \in Perms(Len(images)),
        lams \in [1..Len(images) -> Lambdas]}

\* C10 as stated: with rate 0 no call mixes, with rate 1 every call mixes
\* every sample, and with a rate strictly between the decision is taken
\* per sample, so that a call on two or more samples can augment some of
\* them and not the others.
C10_RateIsFractionOfSamples ==
    mix_ret.kind = "call" =>
        /\ mix.rate = Zero =>
            /\ mix_ret.images = mix_ret.in_images
            /\ mix_ret.labels = _smooth_labels(mix, mix_ret.in_labels)
        /\ mix.rate = One =>
            \A i \in 1..Len(mix_ret.in_images) : mix_ret.augmented[i]
        /\ (RLess(Zero, mix.rate) /\ RLess(mix.rate, One)
                /\ Len(mix_ret.in_images) >= 2) =>
            \E o \in CallOutcomes(mix, mix_ret.in_images, mix_ret.in_labels) :
                \E i, j \in 1..Len(o.augmented) :
                    o.augmented[i] /\ ~o.augmented[j]

----------------------------------------------------------------------------
(* layers/preprocessing/equalize.py: Equalize.                             *)
(*                                                                         *)
(* A channel is a flattened tensor written run by run: a sequence of       *)
(* records [value, count], count pixels of that value in a row.  A channel *)
(* of several hundred pixels, which the default 256 bins need before the   *)
(* step leaves zero, is then a short sequence.                             *)

Run(value, count) == [value |-> value, count |-> count]
Channel(dtype, pixels) == [kind |-> "channel", dtype |-> dtype, pixels |-> pixels]

\* bins=256 of Equalize.__init__
DefaultBins == 256

EqualizeInit(bins) == [kind |-> "Equalize", bins |-> bins]

\* tf.cast between the integer types the layer is given.
cast(v, dtype) == IF dtype = "uint8" THEN v % (2 ^ 8) ELSE v

\* The bin tf.histogram_fixed_width puts a value in: nbins bins of equal
\* width over value_range, values at or past an end in the end bin.
index_to_bin(v, value_range, nbins) ==
    Min(((Max(v, value_range[1]) - value_range[1]) * nbins)
            \div (value_range[2] - value_range[1]),
        nbins - 1)

\* tf.histogram_fixed_width; entry b of the result is bin b - 1.
histogram_fixed_width(pixels, value_range, nbins) ==
    Evaluated([b \in 1..nbins |->
        SeqSum([i \in 1..Len(pixels) |->
            IF index_to_bin(pixels[i].value, value_range, nbins) = b - 1
            THEN pixels[i].count ELSE 0])])

\* tf.gather(histogram, tf.where(histogram != 0)), flattened.
nonzero_histogram(histogram) == SelectSeq(histogram, LAMBDA n : n # 0)

\* step of equalize_channel (bins > 1; bins = 1 divides by zero).
step_of(histogram, bins) ==
    LET nz == nonzero_histogram(histogram)
    IN  (SeqSum(nz) - nz[Len(nz)]) \div (bins - 1)

\* tf.cumsum, summed half by half: entry i is base plus h[lo] + ... + h[i].
RECURSIVE cumsum_range(_, _, _, _)
cumsum_range(h, lo, hi, base) ==
    IF lo = hi THEN <<base + h[lo]>>
    ELSE LET mid == (lo + hi) \div 2
             left == cumsum_range(h, lo, mid, base)
         IN  left \o cumsum_range(h, mid + 1, hi, left[Len(left)])

cumsum(h) == cumsum_range(h, 1, Len(h), 0)

clip_by_value(t, lo, hi) == [i \in 1..Len(t) |-> Min(Max(t[i], lo), hi)]

\* build_mapping, the inner function of equalize_channel.
build_mapping(histogram, step) ==
    LET c == cumsum(histogram)
        lookup_table == [i \in 1..Len(c) |-> (c[i] + (step \div 2)) \div step]
    IN  clip_by_value(<<0>> \o SubSeq(lookup_table, 1, Len(lookup_table) - 1),
                      0, 255)

\* The devices a build runs tf.gather on.  An index past the end of the
\* table raises on the CPU and reads 0 on the GPU.
Devices == {"CPU", "GPU"}

InRange(params, pixels) == \A i \in 1..Len(pixels) : pixels[i].value < Len(params)

\* tf.gather(lookup_table, image): indices count from 0.
gather_pixels(params, pixels, device) ==
    IF ~InRange(params, pixels) /\ device = "CPU"
    THEN Raised("InvalidArgumentError")
    ELSE [kind |-> "pixels",
          pixels |-> [i \in 1..Len(pixels) |->
                        Run(IF pixels[i].value < Len(params)
                            THEN params[pixels[i].value + 1] ELSE 0,
                            pixels[i].count)]]

\* Equalize.equalize_channel on one channel.
equalize_channel(layer, image, device) ==
    LET dtype == image.dtype
        pixels == [i \in 1..Len(image.pixels) |->
                     Run(cast(image.pixels[i].value, "int32"),
                         image.pixels[i].count)]
        histogram == histogram_fixed_width(pixels, <<0, 255>>, layer.bins)
        step == step_of(histogram, layer.bins)
        res == IF step = 0
               THEN [kind |-> "pixels", pixels |-> pixels]
               ELSE gather_pixels(build_mapping(histogram, step), pixels,
                                  device)
    IN  IF res.kind = "raised" THEN res
        ELSE Channel(dtype, [i \in 1..Len(res.pixels) |->
                                Run(cast(res.pixels[i].value, dtype),
                                    res.pixels[i].count)])

\* The layers built and the channels they are called on.
Bins == {2, 4, DefaultBins, DefaultBins + 1}
PixelValues == {0, 1, 255}
Counts == {1, 300}
Channels ==
    {Channel("uint8", p) :
        p \in SeqsUpTo({Run(v, n) : v \in PixelValues, n \in Counts},
                       MaxRuns) \ {<<>>}}

\* equalize_channel of every layer on every channel, computed once.
EqualizeTable ==
    Evaluated([c \in Bins \X Channels \X Devices |->
                equalize_channel(EqualizeInit(c[1]), c[2], c[3])])

InitEqualize ==
    /\ eq = Idle /\ eq_ret = Idle
    /\ cfg = Idle /\ true_positives = Idle /\ ground_truth_boxes = Idle
    /\ seen = Idle /\ ret = Idle /\ mb = Idle
    /\ blur = Idle /\ blur_ret = Idle /\ mix = Idle /\ mix_ret = Idle

EqualizeConstruct ==
    \E bins \in Bins :
        /\ eq' = EqualizeInit(bins)
        /\ eq_ret' = Idle
        /\ UNCHANGED <<cocoVars, mb, blur, blur_ret, mix, mix_ret>>

EqualizeChannel ==
    /\ eq.kind = "Equalize"
    /\ \E image \in Channels, device \in Devices :
        eq_ret' = [kind |-> "call", image |-> image, device |-> device,
                   out |-> EqualizeTable[<<eq.bins, image, device>>]]
    /\ UNCHANGED <<cocoVars, mb, blur, blur_ret, mix, mix_ret, eq>>

NextEqualize == EqualizeConstruct \/ EqualizeChannel

SpecEqualize == InitEqualize /\ [][NextEqualize]_vars

\* What the statement says of one call: with image the channel, bins the
\* layer's bins and out what the call gave.
NumPixels(pixels) == SeqSum([i \in 1..Len(pixels) |-> pixels[i].count])

LastNonEmptyBin(histogram) ==
    histogram[CHOOSE b \in 1..Len(histogram) :
                /\ histogram[b] # 0
                /\ \A c \in (b + 1)..Len(histogram) : histogram[c] = 0]

StatedStep(image, bins) ==
    (NumPixels(image.pixels)
        - LastNonEmptyBin(histogram_fixed_width(image.pixels, <<0, 255>>, bins)))
    \div (bins - 1)

Equalized(image, bins, out) ==
    LET step == StatedStep(image, bins)
        table == build_mapping(
                    histogram_fixed_width(image.pixels, <<0, 255>>, bins), step)
        n == Len(image.pixels)
    IN  IF step = 0
        THEN out = image
        ELSE /\ out.kind = "channel"
             /\ Len(out.pixels) = n
             /\ \A i \in 1..n :
                    /\ out.pixels[i].count = image.pixels[i].count
                    /\ image.pixels[i].value + 1 \in DOMAIN table
                    /\ out.pixels[i].value = table[image.pixels[i].value + 1]
                    /\ out.pixels[i].value \in 0..255
             /\ \A i, j \in 1..n :
                    image.pixels[i].value <= image.pixels[j].value
                        => out.pixels[i].value <= out.pixels[j].value

\* C11: equalize_channel returns the channel unchanged when the step (the
\* number of pixels minus the count of the last non-empty histogram bin,
\* integer-divided by bins - 1) is zero; otherwise every pixel p is replaced
\* by entry p of the lookup table built from the full histogram, every
\* output pixel lies in [0, 255] and the mapping is monotone non-decreasing
\* in the input pixel.
C11_EqualizeChannel ==
    eq_ret.kind = "call" => Equalized(eq_ret.image, eq.bins, eq_ret.out)

\* What the code does do: the statement holds of every layer whose table
\* has an entry for each pixel value, the default 256 bins among them.
TableCoversPixels == eq.bins >= DefaultBins

EqualizeChannelWithFullTable ==
    (eq_ret.kind = "call" /\ TableCoversPixels)
        => Equalized(eq_ret.image, eq.bins, eq_ret.out)

\* A default layer whose step is not zero and which moves a pixel.
EqualizedByDefaultLayer ==
    /\ eq_ret.kind = "call"
    /\ eq.bins = DefaultBins
    /\ StatedStep(eq_ret.image, eq.bins) > 1
    /\ eq_ret.out.kind = "channel"
    /\ \E i \in 1..Len(eq_ret.image.pixels) :
        /\ eq_ret.out.pixels[i].value # eq_ret.image.pixels[i].value
        /\ eq_ret.out.pixels[i].value \notin {0, 255}

\* A call whose step is zero although the channel holds several values.
UnchangedWithSeveralValues ==
    /\ eq_ret.kind = "call"
    /\ StatedStep(eq_ret.image, eq.bins) = 0
    /\ \E i, j \in 1..Len(eq_ret.image.pixels) :
        eq_ret.image.pixels[i].value # eq_ret.image.pixels[j].value

============================================================================
